---- MODULE Spec2Model ----
(***************************************************************************)
(* pydantic-obstore: the six pydantic records of src/pydantic_obstore      *)
(* (ClientConfig, BackoffConfig, RetryConfig, Config, ObjectMeta,          *)
(* GetOptions), their construction (validation), their serialization       *)
(* (model_dump, model_dump(exclude_none=True), model_dump_json) and the    *)
(* reconstruction of a record from a serialized form.                      *)
(*                                                                         *)
(* Python values are tagged records: the field k names the Python type and *)
(* every kind of payload has a field name of its own.  A JSON document is  *)
(* the tree of the values JSON can hold (none, bool, int, float, str,      *)
(* list, dict).  Validation is pydantic's default (lax, smart unions).     *)
(***************************************************************************)
EXTENDS Integers, Sequences, FiniteSets, TLC

\* ------------------------------------------------------------------ bounds
\* A constructor call supplies one key with any of the inputs of that key
\* (or leaves a required one out), and at most MaxOthers further fields with
\* a plain valid value each.
MaxOthers == 1
\* the same, for a plain map supplied for a nested record
MaxNestedOthers == 0
\* elements of a tuple, list or native range supplied as a byte range
MaxLen == 2
\* integers are drawn from -1 .. MaxInt
MaxInt == 1
\* the most assignments made to the attributes of one record
MaxAssign == 1
\* the most containers constructed around one nested record
MaxHolders == 2
MaxThreads == 2

\* ------------------------------------------------------------------ values
PyNone == [k |-> "none"]
PyBool(b) == [k |-> "bool", b |-> b]
PyInt(i) == [k |-> "int", i |-> i]
\* a float, held in tenths: PyFloat(15) is 1.5
PyFloat(t) == [k |-> "float", tenths |-> t]
PyStr(s) == [k |-> "str", s |-> s]
\* a bytes value: its text when it is valid UTF-8, and whether it is
PyBytes(s, utf8) == [k |-> "bytes", text |-> s, utf8 |-> utf8]
\* a timedelta, in milliseconds
PyTimedelta(ms) == [k |-> "timedelta", ms |-> ms]
\* a datetime: its calendar day, the milliseconds of its wall clock within the
\* day, and its zone ("naive" when it has none)
PyDatetime(day, ms, tz) == [k |-> "datetime", day |-> day, ms |-> ms, tz |-> tz]
PyTuple(items) == [k |-> "tuple", items |-> items]
PyList(items) == [k |-> "list", items |-> items]
\* range(0, n)
PyRange(n) == [k |-> "range", stop |-> n]
PyDict(m) == [k |-> "dict", m |-> m]
\* an instance of one of the six record classes
Obj(cls, f) == [k |-> "model", cls |-> cls, f |-> f]
\* pydantic.ValidationError raised instead of a value
ValidationError == [k |-> "ValidationError"]
\* PydanticSerializationError raised instead of an output
SerializationError == [k |-> "SerializationError"]

EmptyMap == [x \in {} |-> PyNone]

Range(f) == {f[x] : x \in DOMAIN f}

\* list(range(0, n))
RangeItems(n) == [i \in 1..n |-> PyInt(i - 1)]

\* ------------------------------------------------------------------ text forms
\* the fractional part of a number of milliseconds, trailing zeros dropped
FracStr(ms) ==
    LET f == ms % 1000
    IN  IF f = 0 THEN ""
        ELSE IF f % 100 = 0 THEN "." \o ToString(f \div 100)
        ELSE IF f % 10 = 0 THEN
            "." \o (IF f < 100 THEN "0" ELSE "") \o ToString(f \div 10)
        ELSE "." \o (IF f < 10 THEN "00" ELSE IF f < 100 THEN "0" ELSE "")
                 \o ToString(f)

\* ISO 8601 duration text of a non-negative timedelta shorter than a day
FormatTimedelta(ms) ==
    LET sec == ms \div 1000
        h == sec \div 3600
        m == (sec % 3600) \div 60
        s == sec % 60
    IN  IF ms = 0 THEN "PT0S"
        ELSE "PT" \o (IF h > 0 THEN ToString(h) \o "H" ELSE "")
                  \o (IF m > 0 THEN ToString(m) \o "M" ELSE "")
                  \o (IF s > 0 \/ ms % 1000 > 0
                      THEN ToString(s) \o FracStr(ms) \o "S" ELSE "")

Pad2(n) == (IF n < 10 THEN "0" ELSE "") \o ToString(n)

\* ISO 8601 text of a datetime: a naive one carries no zone designator, and a
\* fraction of a second is written with six digits
FormatDatetime(d) ==
    LET sec == d.ms \div 1000
    IN  d.day \o "T" \o Pad2(sec \div 3600) \o ":" \o Pad2((sec % 3600) \div 60)
              \o ":" \o Pad2(sec % 60)
              \o (IF d.ms % 1000 = 0 THEN ""
                  ELSE "." \o Pad2((d.ms % 1000) \div 10) \o ToString(d.ms % 10)
                       \o "000")
              \o (IF d.tz = "UTC" THEN "Z" ELSE "")

\* ------------------------------------------------------------------ parsing
\* A text is parsed by finding the value whose text form it is, among the
\* values the model can hold.
IntRange == -1 .. MaxInt

\* the floats the model draws: 1.5 and 2.0, and the floats of the integers
FloatTenths == {15, 20} \cup {10 * i : i \in IntRange}

\* the timedeltas the model draws, in milliseconds: 100 ms, 30 s, 90 s, and
\* the whole and fractional seconds a number converts to
DurationMs == {100, 30000, 90000} \cup {100 * t : t \in {u \in FloatTenths : u >= 0}}

\* str(i)
FormatInt(i) == ToString(i)

\* repr of a non-negative float held in tenths
FormatFloat(t) == ToString(t \div 10) \o "." \o ToString(t % 10)

TrueStrings == {"1", "on", "t", "true", "y", "yes"}
FalseStrings == {"0", "off", "f", "false", "n", "no"}

IsIntLiteral(s) == \E i \in IntRange : FormatInt(i) = s
ParseInt(s) == CHOOSE i \in IntRange : FormatInt(i) = s

IsFloatLiteral(s) == \E t \in {u \in FloatTenths : u >= 0} : FormatFloat(t) = s
ParseFloat(s) == CHOOSE t \in {u \in FloatTenths : u >= 0} : FormatFloat(t) = s

IsDurationText(s) == \E ms \in DurationMs : FormatTimedelta(ms) = s
\* ParseDuration that keeps whole seconds only
ParseDuration_whole_seconds(s) ==
    ((CHOOSE ms \in DurationMs : FormatTimedelta(ms) = s) \div 1000) * 1000

ParseDuration(s) == CHOOSE ms \in DurationMs : FormatTimedelta(ms) = s

\* 2023-01-01 12:00:00, the timestamp of the tests, in milliseconds of its day
NoonMs == 43200000

\* a unix timestamp in milliseconds (|ems| below one day) as a UTC datetime
FromTimestamp(ems) ==
    IF ems >= 0 THEN PyDatetime("1970-01-01", ems, "UTC")
    ELSE PyDatetime("1969-12-31", 86400000 + ems, "UTC")

KnownDatetimes ==
    {PyDatetime("2023-01-01", NoonMs, tz) : tz \in {"naive", "UTC"}}
        \cup {FromTimestamp(100 * t) : t \in FloatTenths}

IsDatetimeText(s) == \E d \in KnownDatetimes : FormatDatetime(d) = s
ParseDatetime(s) == CHOOSE d \in KnownDatetimes : FormatDatetime(d) = s

\* ------------------------------------------------------------------ field types
\* The annotations of the fields.  Validation of a value v against a type
\* yields the stored value, or ValidationError.  strict is the first pass of
\* a smart union, which accepts a value only in the type's own form.
TNone == [t |-> "none"]
TBool == [t |-> "bool"]
TInt == [t |-> "int"]
TFloat == [t |-> "float"]
TStr == [t |-> "str"]
TBytes == [t |-> "bytes"]
TTimedelta == [t |-> "timedelta"]
TDatetime == [t |-> "datetime"]
TPair == [t |-> "tuple[int,int]"]
TSequence == [t |-> "Sequence[int]"]
TDict(vt) == [t |-> "dict", values |-> vt]
TModel(cls) == [t |-> "model", cls |-> cls]
TUnion(members) == [t |-> "union", members |-> members]
\* X | None
Optional(ty) == [t |-> "nullable", inner |-> ty]

\* bool: a bool; in lax mode also 0, 1, 0.0, 1.0 and the texts of a boolean
validate_bool(v, strict) ==
    CASE v.k = "bool" -> v
      [] v.k = "int" /\ ~strict ->
            IF v.i \in {0, 1} THEN PyBool(v.i = 1) ELSE ValidationError
      [] v.k = "float" /\ ~strict ->
            IF v.tenths \in {0, 10} THEN PyBool(v.tenths = 10) ELSE ValidationError
      [] v.k = "str" /\ ~strict ->
            IF v.s \in TrueStrings THEN PyBool(TRUE)
            ELSE IF v.s \in FalseStrings THEN PyBool(FALSE)
            ELSE ValidationError
      [] OTHER -> ValidationError

\* validate_str with numbers coerced to str
validate_str_numbers(v, strict) ==
    CASE v.k = "str" -> v
      [] v.k = "int" /\ ~strict -> PyStr(ToString(v.i))
      [] v.k = "bytes" /\ ~strict ->
            IF v.utf8 THEN PyStr(v.text) ELSE ValidationError
      [] OTHER -> ValidationError

\* str: a str; in lax mode also bytes that decode as UTF-8.  Numbers are not
\* coerced to str.
validate_str(v, strict) ==
    CASE v.k = "str" -> v
      [] v.k = "bytes" /\ ~strict ->
            IF v.utf8 THEN PyStr(v.text) ELSE ValidationError
      [] OTHER -> ValidationError

\* validate_bytes that hands on the text of the bytes
validate_bytes_decoding(v, strict) ==
    CASE v.k = "bytes" -> IF v.utf8 THEN PyStr(v.text) ELSE ValidationError
      [] v.k = "str" /\ ~strict -> v
      [] OTHER -> ValidationError

\* bytes: a bytes; in lax mode also a str, encoded as UTF-8
validate_bytes(v, strict) ==
    CASE v.k = "bytes" -> v
      [] v.k = "str" /\ ~strict -> PyBytes(v.s, TRUE)
      [] OTHER -> ValidationError

\* int: an int; in lax mode also a bool, a float with no fraction and the
\* text of an integer
validate_int(v, strict) ==
    CASE v.k = "int" -> v
      [] v.k = "bool" /\ ~strict -> PyInt(IF v.b THEN 1 ELSE 0)
      [] v.k = "float" /\ ~strict ->
            IF v.tenths % 10 = 0 THEN PyInt(v.tenths \div 10) ELSE ValidationError
      [] v.k = "str" /\ ~strict ->
            IF IsIntLiteral(v.s) THEN PyInt(ParseInt(v.s)) ELSE ValidationError
      [] OTHER -> ValidationError

\* float: a float, or an int (converted); in lax mode also a bool and the text
\* of a number
validate_float(v, strict) ==
    CASE v.k = "float" -> v
      [] v.k = "int" -> PyFloat(10 * v.i)
      [] v.k = "bool" /\ ~strict -> PyFloat(IF v.b THEN 10 ELSE 0)
      [] v.k = "str" /\ ~strict ->
            IF IsIntLiteral(v.s) THEN PyFloat(10 * ParseInt(v.s))
            ELSE IF IsFloatLiteral(v.s) THEN PyFloat(ParseFloat(v.s))
            ELSE ValidationError
      [] OTHER -> ValidationError

\* timedelta: a timedelta; in lax mode also a number of seconds and the
\* ISO 8601 text of a duration
validate_timedelta(v, strict) ==
    CASE v.k = "timedelta" -> v
      [] v.k = "int" /\ ~strict -> PyTimedelta(1000 * v.i)
      [] v.k = "float" /\ ~strict -> PyTimedelta(100 * v.tenths)
      [] v.k = "str" /\ ~strict ->
            IF IsDurationText(v.s) THEN PyTimedelta(ParseDuration(v.s))
            ELSE ValidationError
      [] OTHER -> ValidationError

\* datetime: a datetime; in lax mode also a unix timestamp and the ISO 8601
\* text of a date and time
validate_datetime(v, strict) ==
    CASE v.k = "datetime" -> v
      [] v.k = "int" /\ ~strict -> FromTimestamp(1000 * v.i)
      [] v.k = "float" /\ ~strict -> FromTimestamp(100 * v.tenths)
      [] v.k = "str" /\ ~strict ->
            IF IsDatetimeText(v.s) THEN ParseDatetime(v.s) ELSE ValidationError
      [] OTHER -> ValidationError

\* the elements of a Python sequence value
ItemsOf(v) == IF v.k = "range" THEN RangeItems(v.stop) ELSE v.items

Min(S) == CHOOSE x \in S : \A y \in S : x <= y

\* ------------------------------------------------------------------ the records
\* config.py: class ClientConfig
ClientConfig ==
    [allow_http |-> Optional(TBool),
     allow_invalid_certificates |-> Optional(TBool),
     connect_timeout |-> Optional(TUnion(<<TStr, TTimedelta>>)),
     default_content_type |-> Optional(TStr),
     default_headers |-> Optional(TDict(TUnion(<<TStr, TBytes>>))),
     http1_only |-> Optional(TBool),
     http2_keep_alive_interval |-> Optional(TStr),
     http2_keep_alive_timeout |-> Optional(TUnion(<<TStr, TTimedelta>>)),
     http2_keep_alive_while_idle |-> Optional(TStr),
     http2_only |-> Optional(TBool),
     pool_idle_timeout |-> Optional(TUnion(<<TStr, TTimedelta>>)),
     pool_max_idle_per_host |-> Optional(TStr),
     proxy_url |-> Optional(TStr),
     timeout |-> Optional(TUnion(<<TStr, TTimedelta>>)),
     user_agent |-> Optional(TStr)]

\* BackoffConfig with base annotated float
BackoffConfig_base_float ==
    [base |-> Optional(TFloat),
     init_backoff |-> Optional(TTimedelta),
     max_backoff |-> Optional(TTimedelta)]

\* config.py: class BackoffConfig
BackoffConfig ==
    [base |-> Optional(TUnion(<<TInt, TFloat>>)),
     init_backoff |-> Optional(TTimedelta),
     max_backoff |-> Optional(TTimedelta)]

\* RetryConfig with max_retries annotated str
RetryConfig_retries_str ==
    [backoff |-> Optional(TModel("BackoffConfig")),
     max_retries |-> Optional(TStr),
     retry_timeout |-> Optional(TTimedelta)]

\* config.py: class RetryConfig
RetryConfig ==
    [backoff |-> Optional(TModel("BackoffConfig")),
     max_retries |-> Optional(TInt),
     retry_timeout |-> Optional(TTimedelta)]

\* config.py: class Config
Config ==
    [client_options |-> Optional(TModel("ClientConfig")),
     retry_options |-> Optional(TModel("RetryConfig"))]

\* ObjectMeta with size annotated str
ObjectMeta_size_str ==
    [path |-> TStr,
     last_modified |-> TDatetime,
     size |-> TStr,
     e_tag |-> Optional(TStr),
     version |-> Optional(TStr)]

\* store.py: class ObjectMeta
ObjectMeta ==
    [path |-> TStr,
     last_modified |-> TDatetime,
     size |-> TInt,
     e_tag |-> Optional(TStr),
     version |-> Optional(TStr)]

\* store.py: class GetOptions.  range: Union[tuple[int, int], Sequence[int],
\* dict[str, int], None]
GetOptions ==
    [head |-> Optional(TBool),
     if_match |-> Optional(TStr),
     if_modified_since |-> Optional(TDatetime),
     if_none_match |-> Optional(TStr),
     if_unmodified_since |-> Optional(TDatetime),
     range |-> TUnion(<<TPair, TSequence, TDict(TInt), TNone>>),
     version |-> Optional(TStr)]

Classes ==
    {"ClientConfig", "BackoffConfig", "RetryConfig", "Config", "ObjectMeta",
     "GetOptions"}

\* the annotations of a class
FieldTypes(cls) ==
    CASE cls = "ClientConfig" -> ClientConfig
      [] cls = "BackoffConfig" -> BackoffConfig
      [] cls = "RetryConfig" -> RetryConfig
      [] cls = "Config" -> Config
      [] cls = "ObjectMeta" -> ObjectMeta
      [] cls = "GetOptions" -> GetOptions

FieldNames(cls) == DOMAIN FieldTypes(cls)

\* RequiredFields with size given a default
RequiredFields_size_optional(cls) ==
    IF cls = "ObjectMeta" THEN {"path", "last_modified"} ELSE {}

\* the fields declared with no default: Field(description=...) alone
RequiredFields(cls) ==
    IF cls = "ObjectMeta" THEN {"path", "last_modified", "size"} ELSE {}

\* ExtraForbidden with BackoffConfig left at pydantic's default
ExtraForbidden_backoff_open(cls) ==
    cls \in {"ClientConfig", "RetryConfig", "ObjectMeta", "GetOptions"}

\* model_config = ConfigDict(extra="forbid"), where the class sets it; a class
\* that sets no model_config has pydantic's default, extra="ignore"
ExtraForbidden(cls) ==
    cls \in {"ClientConfig", "BackoffConfig", "RetryConfig", "ObjectMeta",
             "GetOptions"}

\* the fields of ClientConfig that validate_timeout_fields is registered for
TimeoutFields ==
    {"connect_timeout", "http2_keep_alive_timeout", "pool_idle_timeout", "timeout"}

\* validate_timeout_fields without its type check
validate_timeout_fields_passthrough(v) == v

\* config.py: ClientConfig.validate_timeout_fields (mode="before")
validate_timeout_fields(v) ==
    IF v = PyNone THEN v
    ELSE IF v.k \in {"str", "timedelta"} THEN v
    ELSE ValidationError

\* the value a field's "before" validators hand to the field's type
BeforeValidators(cls, name, v) ==
    IF cls = "ClientConfig" /\ name \in TimeoutFields
    THEN validate_timeout_fields(v)
    ELSE v

\* ------------------------------------------------------------------ validation
RECURSIVE Validate(_, _, _)
RECURSIVE ValidateModel(_, _)

\* every element of a sequence validated against one type, as a list
ValidateItems(ty, items, strict) ==
    LET r == [i \in DOMAIN items |-> Validate(ty, items[i], strict)]
    IN  IF \E i \in DOMAIN r : r[i] = ValidationError THEN ValidationError
        ELSE PyList(r)

\* tuple[int, int]: a tuple of two ints; in lax mode any sequence of two
\* values that validate as ints, stored as a tuple
validate_pair(v, strict) ==
    IF v.k = "tuple" \/ (~strict /\ v.k \in {"list", "range"})
    THEN LET r == ValidateItems(TInt, ItemsOf(v), strict)
         IN  IF Len(ItemsOf(v)) # 2 \/ r = ValidationError THEN ValidationError
             ELSE PyTuple(r.items)
    ELSE ValidationError

\* Sequence[int]: an instance of Sequence that is no str or bytes, its
\* elements validated as a list; a tuple comes back as a tuple, a list as a
\* list, and a native range (accepted by the list validator in lax mode only)
\* as the list of its elements
validate_sequence(v, strict) ==
    CASE v.k \in {"tuple", "list"} ->
            LET r == ValidateItems(TInt, v.items, strict)
            IN  IF r = ValidationError THEN ValidationError
                ELSE IF v.k = "tuple" THEN PyTuple(r.items) ELSE r
      [] v.k = "range" /\ ~strict -> PyList(RangeItems(v.stop))
      [] OTHER -> ValidationError

\* dict[str, X]: a dict whose every value validates against X
validate_dict(vt, v, strict) ==
    IF v.k = "dict"
    THEN LET r == [key \in DOMAIN v.m |-> Validate(vt, v.m[key], strict)]
         IN  IF \E key \in DOMAIN r : r[key] = ValidationError
             THEN ValidationError ELSE PyDict(r)
    ELSE ValidationError

\* validate_model that keeps a plain map as it is
validate_model_unvalidated(cls, v, strict) ==
    CASE v.k = "model" -> IF v.cls = cls THEN v ELSE ValidationError
      [] v.k = "dict" /\ ~strict -> v
      [] OTHER -> ValidationError

\* a nested record: an instance of the class is kept as it is; in lax mode a
\* plain map is validated as the keyword arguments of the class
validate_model(cls, v, strict) ==
    CASE v.k = "model" -> IF v.cls = cls THEN v ELSE ValidationError
      [] v.k = "dict" /\ ~strict -> ValidateModel(cls, v.m)
      [] OTHER -> ValidationError

\* a union in left-to-right mode: the first member that accepts the value
validate_union_left_to_right(members, v, strict) ==
    LET hits == {i \in DOMAIN members : Validate(members[i], v, strict) # ValidationError}
    IN  IF hits # {} THEN Validate(members[Min(hits)], v, strict)
        ELSE ValidationError

\* a smart union: the first member that accepts the value in its own form,
\* else the first member that accepts it in lax mode
validate_union(members, v, strict) ==
    LET exact == {i \in DOMAIN members : Validate(members[i], v, TRUE) # ValidationError}
        lax == {i \in DOMAIN members : Validate(members[i], v, FALSE) # ValidationError}
    IN  IF exact # {} THEN Validate(members[Min(exact)], v, TRUE)
        ELSE IF ~strict /\ lax # {} THEN Validate(members[Min(lax)], v, FALSE)
        ELSE ValidationError

Validate(ty, v, strict) ==
    CASE ty.t = "nullable" ->
            IF v = PyNone THEN PyNone ELSE Validate(ty.inner, v, strict)
      [] ty.t = "none" -> IF v = PyNone THEN PyNone ELSE ValidationError
      [] ty.t = "union" -> validate_union(ty.members, v, strict)
      [] ty.t = "bool" -> validate_bool(v, strict)
      [] ty.t = "int" -> validate_int(v, strict)
      [] ty.t = "float" -> validate_float(v, strict)
      [] ty.t = "str" -> validate_str(v, strict)
      [] ty.t = "bytes" -> validate_bytes(v, strict)
      [] ty.t = "timedelta" -> validate_timedelta(v, strict)
      [] ty.t = "datetime" -> validate_datetime(v, strict)
      [] ty.t = "tuple[int,int]" -> validate_pair(v, strict)
      [] ty.t = "Sequence[int]" -> validate_sequence(v, strict)
      [] ty.t = "dict" -> validate_dict(ty.values, v, strict)
      [] ty.t = "model" -> validate_model(ty.cls, v, strict)

\* Default with the defaults of the obstore library put in
Default_obstore(cls, name) ==
    CASE name = "base" -> PyInt(2)
      [] name = "max_retries" -> PyInt(10)
      [] name = "retry_timeout" -> PyTimedelta(180000)
      [] OTHER -> PyNone

\* the default of a field that has one: Field(default=None, ...), = None
Default(cls, name) == PyNone

\* the class of the record a field holds, "" when it holds no record
NestedClass(c, name) ==
    LET ty == FieldTypes(c)[name]
    IN  IF ty.t = "nullable" /\ ty.inner.t = "model" THEN ty.inner.cls ELSE ""

\* one field of a class: its "before" validators, then its annotation
ValidateField(cls, name, v) ==
    LET b == BeforeValidators(cls, name, v)
    IN  IF b = ValidationError THEN ValidationError
        ELSE Validate(FieldTypes(cls)[name], b, FALSE)

\* ValidateModel that drops what it cannot accept: a record of the fields
\* that validate, the others None
ValidateModel_partial(cls, kwargs) ==
    LET r == [name \in FieldNames(cls) |->
                IF name \in DOMAIN kwargs
                   /\ ValidateField(cls, name, kwargs[name]) # ValidationError
                THEN ValidateField(cls, name, kwargs[name])
                ELSE PyNone]
    IN  Obj(cls, r)

\* ValidateModel with a check across fields: init_backoff may not exceed
\* max_backoff
ValidateModel_ordered(cls, kwargs) ==
    LET given == DOMAIN kwargs
        r == [name \in FieldNames(cls) |->
                IF name \in given THEN ValidateField(cls, name, kwargs[name])
                ELSE IF name \in RequiredFields(cls) THEN ValidationError
                ELSE PyNone]
    IN  IF ExtraForbidden(cls) /\ given \ FieldNames(cls) # {} THEN ValidationError
        ELSE IF \E name \in DOMAIN r : r[name] = ValidationError THEN ValidationError
        ELSE IF /\ cls = "BackoffConfig"
                /\ r.init_backoff # PyNone
                /\ r.max_backoff # PyNone
                /\ r.init_backoff.ms > r.max_backoff.ms
        THEN ValidationError
        ELSE Obj(cls, r)

\* cls(**kwargs): the record, or ValidationError.  A key that names no field
\* is an error where extra is forbidden and is dropped otherwise; a field
\* without a key takes its default None, or is an error when it is required.
ValidateModel(cls, kwargs) ==
    LET given == DOMAIN kwargs
        r == [name \in FieldNames(cls) |->
                IF name \in given THEN ValidateField(cls, name, kwargs[name])
                ELSE IF name \in RequiredFields(cls) THEN ValidationError
                ELSE Default(cls, name)]
    IN  IF ExtraForbidden(cls) /\ given \ FieldNames(cls) # {} THEN ValidationError
        ELSE IF \E name \in DOMAIN r : r[name] = ValidationError THEN ValidationError
        ELSE Obj(cls, r)

RECURSIVE ErrorLocs(_, _)

\* The locations of the errors of the ValidationError that cls(**kwargs)
\* raises, each the path of keys from the call down to the offending field:
\* an unknown key where extra is forbidden, a required field left out, a
\* value its field rejects; the errors of a plain map given for a nested
\* record are located beneath the field that holds the record.
ErrorLocs(cls, kwargs) ==
    LET given == DOMAIN kwargs
        extra == IF ExtraForbidden(cls) THEN given \ FieldNames(cls) ELSE {}
        missing == RequiredFields(cls) \ given
        below(name) ==
            IF NestedClass(cls, name) # "" /\ kwargs[name].k = "dict"
            THEN {<<name>> \o loc : loc \in ErrorLocs(NestedClass(cls, name), kwargs[name].m)}
            ELSE IF ValidateField(cls, name, kwargs[name]) = ValidationError
            THEN {<<name>>}
            ELSE {}
    IN  {<<key>> : key \in extra \cup missing}
            \cup UNION {below(name) : name \in given \cap FieldNames(cls)}

\* ------------------------------------------------------------------ serialization
\* serialize_range with tuples too turned into lists
serialize_range_listing(value) ==
    IF value.k \in {"range", "tuple"} THEN PyList(ItemsOf(value)) ELSE value

\* store.py: GetOptions.serialize_range
serialize_range(value) ==
    IF value.k = "range" THEN PyList(RangeItems(value.stop)) ELSE value

\* the value a field's serializer hands on to be serialized by its own type
FieldSerializers(cls, name, v) ==
    IF cls = "GetOptions" /\ name = "range" THEN serialize_range(v) ELSE v

RECURSIVE Serialize(_, _, _)

\* SerializeModel with exclude_none not handed down to nested records
SerializeModel_shallow(obj, mode, exclude_none) ==
    LET keep == {name \in DOMAIN obj.f : ~(exclude_none /\ obj.f[name] = PyNone)}
        r == [name \in keep |->
                Serialize(FieldSerializers(obj.cls, name, obj.f[name]), mode, FALSE)]
    IN  IF \E name \in keep : r[name] = SerializationError THEN SerializationError
        ELSE PyDict(r)

\* a record as a map of its fields, the fields that are None left out when
\* exclude_none is set
SerializeModel(obj, mode, exclude_none) ==
    LET keep == {name \in DOMAIN obj.f : ~(exclude_none /\ obj.f[name] = PyNone)}
        r == [name \in keep |->
                Serialize(FieldSerializers(obj.cls, name, obj.f[name]), mode,
                          exclude_none)]
    IN  IF \E name \in keep : r[name] = SerializationError THEN SerializationError
        ELSE PyDict(r)

\* every element of a sequence serialized, as a list
SerializeItems(items, mode, exclude_none) ==
    LET r == [i \in DOMAIN items |-> Serialize(items[i], mode, exclude_none)]
    IN  IF \E i \in DOMAIN r : r[i] = SerializationError THEN SerializationError
        ELSE PyList(r)

\* every value of a dict serialized
SerializeDict(m, mode, exclude_none) ==
    LET r == [key \in DOMAIN m |-> Serialize(m[key], mode, exclude_none)]
    IN  IF \E key \in DOMAIN r : r[key] = SerializationError THEN SerializationError
        ELSE PyDict(r)

\* A value in mode "python" keeps its Python type, in mode "json" it becomes
\* what JSON can hold: bytes their UTF-8 text (an error when they have none),
\* a timedelta and a datetime their ISO 8601 text, a tuple or range a list.
Serialize(v, mode, exclude_none) ==
    CASE v.k = "model" -> SerializeModel(v, mode, exclude_none)
      [] v.k = "dict" -> SerializeDict(v.m, mode, exclude_none)
      [] v.k \in {"tuple", "list", "range"} ->
            LET r == SerializeItems(ItemsOf(v), mode, exclude_none)
            IN  IF r = SerializationError THEN SerializationError
                ELSE IF mode = "python" /\ v.k = "tuple" THEN PyTuple(r.items)
                ELSE r
      [] v.k = "bytes" /\ mode = "json" ->
            IF v.utf8 THEN PyStr(v.text) ELSE SerializationError
      [] v.k = "timedelta" /\ mode = "json" -> PyStr(FormatTimedelta(v.ms))
      [] v.k = "datetime" /\ mode = "json" -> PyStr(FormatDatetime(v))
      [] OTHER -> v

\* BaseModel.model_dump(exclude_none=...)
model_dump(obj, exclude_none) == SerializeModel(obj, "python", exclude_none)

\* BaseModel.model_dump_json(): the JSON document, as the tree of its values
model_dump_json(obj) == SerializeModel(obj, "json", FALSE)

\* cls.model_validate_json(text): the document's members validated as the
\* keyword arguments of the class
model_validate_json(cls, doc) == ValidateModel(cls, doc.m)

\* ------------------------------------------------------------------ equality
\* the number a bool, int or float stands for, in tenths
Num(v) ==
    CASE v.k = "bool" -> IF v.b THEN 10 ELSE 0
      [] v.k = "int" -> 10 * v.i
      [] v.k = "float" -> v.tenths

RECURSIVE PyEq(_, _)

\* Python's a == b: numbers by value, sequences of one type element by
\* element, dicts key by key, records of one class field by field
PyEq(a, b) ==
    CASE a.k \in {"bool", "int", "float"} ->
            b.k \in {"bool", "int", "float"} /\ Num(a) = Num(b)
      [] a.k \in {"tuple", "list"} ->
            /\ b.k = a.k
            /\ Len(b.items) = Len(a.items)
            /\ \A i \in DOMAIN a.items : PyEq(a.items[i], b.items[i])
      [] a.k = "dict" ->
            /\ b.k = "dict"
            /\ DOMAIN b.m = DOMAIN a.m
            /\ \A key \in DOMAIN a.m : PyEq(a.m[key], b.m[key])
      [] a.k = "model" ->
            /\ b.k = "model"
            /\ b.cls = a.cls
            /\ \A name \in DOMAIN a.f : PyEq(a.f[name], b.f[name])
      [] OTHER -> a = b

\* ------------------------------------------------------------------ inputs
\* The values a caller supplies.  For every annotation: None, values of the
\* annotated type, and values of the other Python types, among them the
\* texts that convert and the texts that do not.
Ints == {PyInt(i) : i \in IntRange}

\* sequences of ints of length at most MaxLen
IntSeqs == UNION {[1..n -> Ints] : n \in 0..MaxLen}

Noon(tz) == PyDatetime("2023-01-01", NoonMs, tz)

BoolInputs ==
    {PyNone, PyBool(TRUE), PyBool(FALSE), PyInt(1), PyStr("true"),
     PyStr("not-a-bool")}

StrInputs ==
    {PyNone, PyStr("abc123"), PyInt(1), PyBool(TRUE), PyBytes("abc123", TRUE),
     PyTimedelta(30000)}

TimeoutInputs ==
    {PyNone, PyStr("30s"), PyTimedelta(30000), PyInt(MaxInt), PyFloat(15),
     PyBytes("30s", TRUE), PyBool(TRUE)}

HeaderInputs ==
    {PyNone, PyStr("not-a-dict"), PyList(<<PyStr("not"), PyStr("a"), PyStr("dict")>>),
     PyDict(EmptyMap),
     PyDict([ct |-> PyStr("application/json")]),
     PyDict([auth |-> PyBytes("Bearer token", TRUE)]),
     PyDict([ct |-> PyStr("application/json"), auth |-> PyBytes("Bearer token", TRUE)]),
     PyDict([auth |-> PyBytes("", FALSE)]),
     PyDict([ct |-> PyInt(1)])}

NumberInputs ==
    {PyNone, PyInt(MaxInt), PyFloat(15), PyFloat(20), PyStr("invalid"), PyStr("1")}

TimedeltaInputs ==
    {PyNone, PyTimedelta(100), PyTimedelta(30000), PyStr("invalid"), PyStr("PT30S"),
     PyInt(MaxInt)}

IntInputs ==
    {PyNone, PyInt(0), PyInt(MaxInt), PyStr("not-an-int"), PyStr("1"), PyFloat(15),
     PyFloat(20)}

DatetimeInputs ==
    {PyNone, Noon("naive"), Noon("UTC"), PyStr("not-a-datetime"),
     PyStr("2023-01-01T12:00:00Z"), PyInt(MaxInt)}

RangeInputs ==
    {PyNone, PyStr("bad"), PyInt(MaxInt)}
        \cup {PyTuple(q) : q \in IntSeqs}
        \cup {PyList(q) : q \in IntSeqs}
        \cup {PyRange(n) : n \in 0..MaxLen}
        \cup {PyDict(EmptyMap), PyDict([other |-> PyInt(MaxInt)]),
              PyDict([offset |-> PyStr("bad")])}
        \cup {PyDict([offset |-> i]) : i \in Ints}
        \cup {PyDict([suffix |-> i]) : i \in Ints}
        \cup {PyDict([offset |-> i, suffix |-> i]) : i \in Ints}

\* a key that names no field of any class
UnknownKey == "unknown_field"

\* a marker for a key left out of the keyword arguments
Absent == [k |-> "absent"]

\* the keyword arguments of a call that gives path, last_modified and size
\* to ObjectMeta, and nothing to the other classes
BaseKwargs(cls) ==
    IF cls = "ObjectMeta"
    THEN [path |-> PyStr("test/file.txt"), last_modified |-> Noon("UTC"),
          size |-> PyInt(MaxInt)]
    ELSE EmptyMap

\* base with key set to v, or left out when v is Absent
ApplyEdit(base, key, v) ==
    [x \in (DOMAIN base \ {key}) \cup (IF v = Absent THEN {} ELSE {key}) |->
        IF x = key THEN v ELSE base[x]]

\* The keyword arguments of a call: BaseKwargs, at most n further fields
\* given their plain value, and at most one key (a field or the unknown key)
\* given any of its inputs; a key of BaseKwargs may also be left out.
Kwargs(cls, inputs, plain, n) ==
    LET base == BaseKwargs(cls)
        free == FieldNames(cls) \ DOMAIN base
        withOthers == {[x \in DOMAIN base \cup D |->
                            IF x \in D THEN plain[x] ELSE base[x]] :
                        D \in {D \in SUBSET free : Cardinality(D) <= n}}
        choices(key) ==
            IF key = UnknownKey THEN {PyStr("value")}
            ELSE inputs[key] \cup
                 (IF key \in DOMAIN base THEN {Absent} ELSE {})
    IN  withOthers
            \cup UNION {{ApplyEdit(m, key, v) : v \in choices(key)} :
                        m \in withOthers, key \in FieldNames(cls) \cup {UnknownKey}}

\* the values supplied for a nested record: None, a text, each of the plain
\* maps given, and the instances constructed from those maps
ModelInputs(cls, maps) ==
    {PyNone, PyStr("invalid")} \cup {PyDict(m) : m \in maps}
        \cup ({ValidateModel(cls, m) : m \in maps} \ {ValidationError})

\* the inputs of each field of a class, and its plain valid value
ClientConfigInputs ==
    [name \in DOMAIN ClientConfig |->
        CASE name \in TimeoutFields -> TimeoutInputs
          [] name = "default_headers" -> HeaderInputs
          [] ClientConfig[name] = Optional(TBool) -> BoolInputs
          [] OTHER -> StrInputs]

ClientConfigPlain ==
    [name \in DOMAIN ClientConfig |->
        CASE name \in TimeoutFields -> PyTimedelta(30000)
          [] name = "default_headers" -> PyDict([ct |-> PyStr("application/json")])
          [] ClientConfig[name] = Optional(TBool) -> PyBool(TRUE)
          [] OTHER -> PyStr("abc123")]

BackoffConfigInputs ==
    [name \in DOMAIN BackoffConfig |->
        IF name = "base" THEN NumberInputs ELSE TimedeltaInputs]

BackoffConfigPlain ==
    [name \in DOMAIN BackoffConfig |->
        IF name = "base" THEN PyFloat(20) ELSE PyTimedelta(100)]

BackoffMaps ==
    Kwargs("BackoffConfig", BackoffConfigInputs, BackoffConfigPlain, MaxNestedOthers)

RetryConfigInputs ==
    [name \in DOMAIN RetryConfig |->
        CASE name = "backoff" -> ModelInputs("BackoffConfig", BackoffMaps)
          [] name = "max_retries" -> IntInputs
          [] OTHER -> TimedeltaInputs]

RetryConfigPlain ==
    [name \in DOMAIN RetryConfig |->
        CASE name = "backoff" -> PyDict([base |-> PyInt(MaxInt)])
          [] name = "max_retries" -> PyInt(MaxInt)
          [] OTHER -> PyTimedelta(30000)]

ClientMaps ==
    Kwargs("ClientConfig", ClientConfigInputs, ClientConfigPlain, MaxNestedOthers)

RetryMaps ==
    Kwargs("RetryConfig", RetryConfigInputs, RetryConfigPlain, MaxNestedOthers)

ConfigInputs ==
    [name \in DOMAIN Config |->
        IF name = "client_options" THEN ModelInputs("ClientConfig", ClientMaps)
        ELSE ModelInputs("RetryConfig", RetryMaps)]

ConfigPlain ==
    [name \in DOMAIN Config |->
        IF name = "client_options" THEN PyDict([allow_http |-> PyBool(TRUE)])
        ELSE PyDict([max_retries |-> PyInt(MaxInt)])]

ObjectMetaInputs ==
    [name \in DOMAIN ObjectMeta |->
        CASE name = "last_modified" -> DatetimeInputs
          [] name = "size" -> IntInputs
          [] OTHER -> StrInputs]

ObjectMetaPlain ==
    [name \in DOMAIN ObjectMeta |->
        CASE name = "last_modified" -> Noon("UTC")
          [] name = "size" -> PyInt(MaxInt)
          [] OTHER -> PyStr("abc123")]

GetOptionsInputs ==
    [name \in DOMAIN GetOptions |->
        CASE name = "head" -> BoolInputs
          [] name = "range" -> RangeInputs
          [] name \in {"if_modified_since", "if_unmodified_since"} -> DatetimeInputs
          [] OTHER -> StrInputs]

GetOptionsPlain ==
    [name \in DOMAIN GetOptions |->
        CASE name = "head" -> PyBool(TRUE)
          [] name = "range" -> PyTuple(<<PyInt(0), PyInt(MaxInt)>>)
          [] name \in {"if_modified_since", "if_unmodified_since"} -> Noon("UTC")
          [] OTHER -> PyStr("abc123")]

\* the constructor calls made: a class and its keyword arguments
Calls ==
    {<<"ClientConfig", kw>> :
        kw \in Kwargs("ClientConfig", ClientConfigInputs, ClientConfigPlain, MaxOthers)}
    \cup {<<"BackoffConfig", kw>> :
        kw \in Kwargs("BackoffConfig", BackoffConfigInputs, BackoffConfigPlain, MaxOthers)}
    \cup {<<"RetryConfig", kw>> :
        kw \in Kwargs("RetryConfig", RetryConfigInputs, RetryConfigPlain, MaxOthers)}
    \cup {<<"Config", kw>> :
        kw \in Kwargs("Config", ConfigInputs, ConfigPlain, MaxOthers)}
    \cup {<<"ObjectMeta", kw>> :
        kw \in Kwargs("ObjectMeta", ObjectMetaInputs, ObjectMetaPlain, MaxOthers)}
    \cup {<<"GetOptions", kw>> :
        kw \in Kwargs("GetOptions", GetOptionsInputs, GetOptionsPlain, MaxOthers)}

\* the keyword arguments of a call that gives valid values only: BaseKwargs
\* and at most n further fields, each with its plain value
PlainKwargs(cls, plain, n) ==
    LET base == BaseKwargs(cls)
        free == FieldNames(cls) \ DOMAIN base
    IN  {[x \in DOMAIN base \cup D |-> IF x \in D THEN plain[x] ELSE base[x]] :
            D \in {D \in SUBSET free : Cardinality(D) <= n}}

\* the inputs of each field of a class, and its plain valid values
InputsOf(c) ==
    CASE c = "ClientConfig" -> ClientConfigInputs
      [] c = "BackoffConfig" -> BackoffConfigInputs
      [] c = "RetryConfig" -> RetryConfigInputs
      [] c = "Config" -> ConfigInputs
      [] c = "ObjectMeta" -> ObjectMetaInputs
      [] c = "GetOptions" -> GetOptionsInputs

PlainOf(c) ==
    CASE c = "ClientConfig" -> ClientConfigPlain
      [] c = "BackoffConfig" -> BackoffConfigPlain
      [] c = "RetryConfig" -> RetryConfigPlain
      [] c = "Config" -> ConfigPlain
      [] c = "ObjectMeta" -> ObjectMetaPlain
      [] c = "GetOptions" -> GetOptionsPlain

\* the constructor calls whose records are assigned to and nested afterwards:
\* the calls with valid values, and GetOptions given each input for range
ObjectCalls ==
    UNION {{<<c, kw>> : kw \in PlainKwargs(c, PlainOf(c), MaxOthers)} : c \in Classes}
        \cup {<<"GetOptions", [name \in {"range"} |-> v]>> : v \in RangeInputs}

\* the container class and field a record of a class is nested in
HolderOf(c) ==
    CASE c = "BackoffConfig" -> [cls |-> "RetryConfig", field |-> "backoff"]
      [] c = "ClientConfig" -> [cls |-> "Config", field |-> "client_options"]
      [] c = "RetryConfig" -> [cls |-> "Config", field |-> "retry_options"]

\* no assignment made yet
NoAttr == [name |-> "", value |-> PyNone, raised |-> FALSE]

\* the threads, and the calls each of them makes: the calls with valid
\* values, GetOptions given each input for range, and BackoffConfig given
\* each input for init_backoff
Threads == 1 .. MaxThreads

ThreadCalls ==
    ObjectCalls
        \cup {<<"BackoffConfig", [name \in {"init_backoff"} |-> v]>> :
                v \in BackoffConfigInputs.init_backoff}

\* a thread about to call cls(**kwargs): the keys it has yet to validate, the
\* values validated so far, and the record and output it has got
Thread(c, kw) ==
    [pc |-> "call", cls |-> c, kwargs |-> kw, todo |-> DOMAIN kw,
     partial |-> EmptyMap, rec |-> PyNone, form |-> "none", out |-> PyNone]

\* no thread is running
NoThreads == [t \in Threads |-> Thread("", EmptyMap)]

\* ------------------------------------------------------------------ the calls
VARIABLES
    pc,        \* where the caller is: "call", "constructed", "raised",
               \* "dumped", "dump_raised", "restored"
    cls,       \* the class being constructed
    kwargs,    \* the keyword arguments of the constructor call
    rec,       \* the record constructed, or ValidationError
    form,      \* the serialized form taken: "dict", "exclude_none", "json"
    out,       \* the serialized output, or SerializationError
    restored,  \* the record constructed from out, or ValidationError
    errors,    \* the error locations of the ValidationError raised
    attr,      \* the last assignment to an attribute of rec
    assigns,   \* the number of assignments made
    holders,   \* the containers constructed with rec as a nested value
    threads    \* the threads constructing and serializing records of their own

vars == <<pc, cls, kwargs, rec, form, out, restored, errors, attr, assigns, holders,
          threads>>

\* the variables of assignment, nesting and threads
objvars == <<attr, assigns, holders, threads>>

\* a caller about to construct a record of some class from some input
Init ==
    /\ pc = "call"
    /\ \E call \in Calls : cls = call[1] /\ kwargs = call[2]
    /\ rec = PyNone
    /\ form = "none"
    /\ out = PyNone
    /\ restored = PyNone
    /\ errors = {}
    /\ attr = NoAttr
    /\ assigns = 0
    /\ holders = <<>>
    /\ threads = NoThreads

\* Construct that takes the items out of the caller's map as it reads them
Construct_consuming ==
    /\ pc = "call"
    /\ rec' = ValidateModel(cls, kwargs)
    /\ errors' = ErrorLocs(cls, kwargs)
    /\ kwargs' = EmptyMap
    /\ pc' = IF rec' = ValidationError THEN "raised" ELSE "constructed"
    /\ UNCHANGED <<cls, form, out, restored, objvars>>

\* cls(**kwargs)
Construct ==
    /\ pc = "call"
    /\ rec' = ValidateModel(cls, kwargs)
    /\ errors' = ErrorLocs(cls, kwargs)
    /\ pc' = IF rec' = ValidationError THEN "raised" ELSE "constructed"
    /\ UNCHANGED <<cls, kwargs, form, out, restored, objvars>>

\* rec.model_dump()
ModelDump ==
    /\ pc = "constructed"
    /\ form' = "dict"
    /\ out' = model_dump(rec, FALSE)
    /\ pc' = "dumped"
    /\ UNCHANGED <<cls, kwargs, rec, restored, errors, objvars>>

\* rec.model_dump(exclude_none=True)
ModelDumpExcludeNone ==
    /\ pc = "constructed"
    /\ form' = "exclude_none"
    /\ out' = model_dump(rec, TRUE)
    /\ pc' = "dumped"
    /\ UNCHANGED <<cls, kwargs, rec, restored, errors, objvars>>

\* rec.model_dump_json()
ModelDumpJson ==
    /\ pc = "constructed"
    /\ form' = "json"
    /\ out' = model_dump_json(rec)
    /\ pc' = IF out' = SerializationError THEN "dump_raised" ELSE "dumped"
    /\ UNCHANGED <<cls, kwargs, rec, restored, errors, objvars>>

\* cls(**out), out a map from model_dump
Reconstruct ==
    /\ pc = "dumped"
    /\ form \in {"dict", "exclude_none"}
    /\ restored' = ValidateModel(cls, out.m)
    /\ pc' = "restored"
    /\ UNCHANGED <<cls, kwargs, rec, form, out, errors, objvars>>

\* cls.model_validate_json(out), out the text from model_dump_json
ModelValidateJson ==
    /\ pc = "dumped"
    /\ form = "json"
    /\ restored' = model_validate_json(cls, out)
    /\ pc' = "restored"
    /\ UNCHANGED <<cls, kwargs, rec, form, out, errors, objvars>>

Next ==
    \/ Construct
    \/ ModelDump
    \/ ModelDumpExcludeNone
    \/ ModelDumpJson
    \/ Reconstruct
    \/ ModelValidateJson

Spec == Init /\ [][Next]_vars

\* ------------------------------------------------------------------ assignment and nesting
\* a caller about to construct a record from valid input
InitObjects ==
    /\ pc = "call"
    /\ \E call \in ObjectCalls : cls = call[1] /\ kwargs = call[2]
    /\ rec = PyNone
    /\ form = "none"
    /\ out = PyNone
    /\ restored = PyNone
    /\ errors = {}
    /\ attr = NoAttr
    /\ assigns = 0
    /\ holders = <<>>
    /\ threads = NoThreads

\* rec.name = value.  No class sets validate_assignment or frozen in its
\* model_config, so BaseModel.__setattr__ stores the value of a field as it
\* is given, without validation; a name that is no field raises ValueError.
SetAttr ==
    /\ pc = "constructed"
    /\ assigns < MaxAssign
    /\ \E name \in FieldNames(cls) \cup {UnknownKey} :
         \E value \in (IF name \in FieldNames(cls) THEN InputsOf(cls)[name]
                        ELSE {PyStr("value")}) :
            /\ attr' = [name |-> name, value |-> value,
                        raised |-> name \notin FieldNames(cls)]
            /\ rec' = IF name \in FieldNames(cls)
                      THEN [rec EXCEPT !.f[name] = value]
                      ELSE rec
    /\ assigns' = assigns + 1
    /\ UNCHANGED <<pc, cls, kwargs, form, out, restored, errors, holders, threads>>

\* Holder(field=rec), e.g. RetryConfig(backoff=rec): a container constructed
\* with the caller's record as its nested value
Nest ==
    /\ pc = "constructed"
    /\ cls \in {"BackoffConfig", "ClientConfig", "RetryConfig"}
    /\ Len(holders) < MaxHolders
    /\ holders' = Append(holders, HolderOf(cls))
    /\ UNCHANGED <<pc, cls, kwargs, rec, form, out, restored, errors, attr, assigns,
                   threads>>

\* The container as it reads now.  validate_model keeps an instance of the
\* nested class as it is, so the container's field holds the caller's record
\* itself, not a copy of it: it reads as rec reads.
Holder(h) ==
    ValidateModel(h.cls, [name \in {h.field} |-> rec])

\* holder.model_dump(), holder one of the containers
DumpHolder ==
    /\ pc = "constructed"
    /\ \E i \in DOMAIN holders : out' = model_dump(Holder(holders[i]), FALSE)
    /\ form' = "holder"
    /\ pc' = "dumped"
    /\ UNCHANGED <<cls, kwargs, rec, restored, errors, objvars>>

\* model_dump() hands out the value a plain field serializer returns as it is
\* (only model_dump_json() serializes it further): the fields that have one
HasFieldSerializer(c, name) == c = "GetOptions" /\ name = "range"

\* The value under name in the map from c.model_dump() is the record's own
\* object: serialize_range returns value itself unless it is a range object,
\* and a list or a dict can be changed in place.  Every other field is
\* serialized by its type, which builds a new list or dict.
SharedWithRecord(c, name, v) ==
    /\ HasFieldSerializer(c, name)
    /\ serialize_range(v) = v
    /\ v.k \in {"list", "dict"}

\* v.append(0) for a list, v["mutated"] = 0 for a dict
MutateValue(v) ==
    IF v.k = "list" THEN PyList(Append(v.items, PyInt(0)))
    ELSE PyDict([key \in DOMAIN v.m \cup {"mutated"} |->
                    IF key = "mutated" THEN PyInt(0) ELSE v.m[key]])

\* The caller changes the map model_dump() returned: out[name] = 0, or the
\* list or dict under a key changed in place.  A change in place of an object
\* the record shares shows in the record.
MutateOut ==
    /\ pc = "dumped"
    /\ form \in {"dict", "exclude_none", "holder"}
    /\ \E name \in DOMAIN out.m :
         \/ /\ out' = [out EXCEPT !.m[name] = PyInt(0)]
            /\ rec' = rec
         \/ /\ out.m[name].k \in {"list", "dict"}
            /\ out' = [out EXCEPT !.m[name] = MutateValue(@)]
            /\ rec' = IF form # "holder" /\ SharedWithRecord(cls, name, rec.f[name])
                      THEN [rec EXCEPT !.f[name] = MutateValue(@)]
                      ELSE rec
    /\ pc' = "mutated"
    /\ UNCHANGED <<cls, kwargs, form, restored, errors, objvars>>

NextObjects ==
    \/ Construct
    \/ SetAttr
    \/ Nest
    \/ ModelDump
    \/ ModelDumpExcludeNone
    \/ ModelDumpJson
    \/ DumpHolder
    \/ MutateOut

SpecObjects == InitObjects /\ [][NextObjects]_vars

\* ------------------------------------------------------------------ threads
\* Several threads, each constructing a record of its own from keyword
\* arguments of its own and serializing it.  The classes keep no state but
\* their declarations (no module or class variable is assigned, every field
\* default is None), so a step of a thread reads and writes that thread's
\* frame only; a constructor call is not one step, other threads run between
\* the validation of one key and the next.
InitThreads ==
    /\ pc = "threads"
    /\ cls = ""
    /\ kwargs = EmptyMap
    /\ rec = PyNone
    /\ form = "none"
    /\ out = PyNone
    /\ restored = PyNone
    /\ errors = {}
    /\ attr = NoAttr
    /\ assigns = 0
    /\ holders = <<>>
    /\ threads \in {[t \in Threads |-> Thread(calls[t][1], calls[t][2])] :
                        calls \in [Threads -> ThreadCalls]}

\* the record of the values validated, as ValidateModel makes it of the
\* keyword arguments
FinishModel(c, partial) ==
    LET r == [name \in FieldNames(c) |->
                IF name \in DOMAIN partial THEN partial[name]
                ELSE IF name \in RequiredFields(c) THEN ValidationError
                ELSE Default(c, name)]
    IN  IF ExtraForbidden(c) /\ DOMAIN partial \ FieldNames(c) # {} THEN ValidationError
        ELSE IF \E name \in DOMAIN r : r[name] = ValidationError THEN ValidationError
        ELSE Obj(c, r)

\* the values validated so far with one more
WithKey(partial, key, v) ==
    [x \in DOMAIN partial \cup {key} |-> IF x = key THEN v ELSE partial[x]]

\* TValidateKey with the values validated kept with the class: the value
\* lands in every call of that class under way
TValidateKey_class_scratch(t) ==
    LET th == threads[t]
    IN  /\ th.pc = "call"
        /\ \E key \in th.todo :
             LET v == IF key \in FieldNames(th.cls)
                      THEN ValidateField(th.cls, key, th.kwargs[key])
                      ELSE th.kwargs[key]
             IN  threads' = [u \in Threads |->
                    IF u = t
                    THEN [th EXCEPT !.todo = @ \ {key},
                                    !.partial = WithKey(@, key, v)]
                    ELSE IF threads[u].pc = "call" /\ threads[u].cls = th.cls
                    THEN [threads[u] EXCEPT !.partial = WithKey(@, key, v)]
                    ELSE threads[u]]
        /\ UNCHANGED <<pc, cls, kwargs, rec, form, out, restored, errors,
                       attr, assigns, holders>>

\* thread t validates one key of its call
TValidateKey(t) ==
    LET th == threads[t]
    IN  /\ th.pc = "call"
        /\ \E key \in th.todo :
             LET v == IF key \in FieldNames(th.cls)
                      THEN ValidateField(th.cls, key, th.kwargs[key])
                      ELSE th.kwargs[key]
             IN  threads' = [threads EXCEPT ![t] =
                    [th EXCEPT !.todo = @ \ {key},
                               !.partial = WithKey(@, key, v)]]
        /\ UNCHANGED <<pc, cls, kwargs, rec, form, out, restored, errors,
                       attr, assigns, holders>>

\* the constructor call of thread t returns its record, or raises
TFinish(t) ==
    LET th == threads[t]
        r == FinishModel(th.cls, th.partial)
    IN  /\ th.pc = "call"
        /\ th.todo = {}
        /\ threads' = [threads EXCEPT ![t] =
                [th EXCEPT !.rec = r,
                           !.pc = IF r = ValidationError THEN "raised"
                                  ELSE "constructed"]]
        /\ UNCHANGED <<pc, cls, kwargs, rec, form, out, restored, errors,
                       attr, assigns, holders>>

\* thread t: rec.model_dump()
TModelDump(t) ==
    LET th == threads[t]
    IN  /\ th.pc = "constructed"
        /\ threads' = [threads EXCEPT ![t] =
                [th EXCEPT !.form = "dict",
                           !.out = model_dump(th.rec, FALSE),
                           !.pc = "dumped"]]
        /\ UNCHANGED <<pc, cls, kwargs, rec, form, out, restored, errors,
                       attr, assigns, holders>>

\* thread t: rec.model_dump_json()
TModelDumpJson(t) ==
    LET th == threads[t]
        o == model_dump_json(th.rec)
    IN  /\ th.pc = "constructed"
        /\ threads' = [threads EXCEPT ![t] =
                [th EXCEPT !.form = "json",
                           !.out = o,
                           !.pc = IF o = SerializationError THEN "dump_raised"
                                  ELSE "dumped"]]
        /\ UNCHANGED <<pc, cls, kwargs, rec, form, out, restored, errors,
                       attr, assigns, holders>>

NextThreads ==
    \E t \in Threads :
        \/ TValidateKey(t)
        \/ TFinish(t)
        \/ TModelDump(t)
        \/ TModelDumpJson(t)

SpecThreads == InitThreads /\ [][NextThreads]_vars

\* ------------------------------------------------------------------ the claims
\* the constructor call has returned or raised
Called == pc # "call"

\* the key is one the class accepts with the value given for it
KeyValid(key) ==
    IF key \in FieldNames(cls) THEN ValidateField(cls, key, kwargs[key]) # ValidationError
    ELSE ~ExtraForbidden(cls)

\* every key of the call but name is valid, and no required field is left out
OthersValid(name) ==
    /\ \A key \in DOMAIN kwargs \ {name} : KeyValid(key)
    /\ RequiredFields(cls) \ {name} \subseteq DOMAIN kwargs

\* C1: for every record type, constructing the record from an input map that
\* contains a key outside the declared field set raises a validation error
\* and produces no record.
C1_ClosedSchema ==
    (Called /\ DOMAIN kwargs \ FieldNames(cls) # {}) => rec = ValidationError

\* C2: for every record type and every constructed instance x, the record
\* reconstructed from model_dump() of x is equal to x, field by field, nested
\* records and the tuple shape of a range included.
C2_MapRoundTrip ==
    (pc = "restored" /\ form = "dict") =>
        /\ restored # ValidationError
        /\ PyEq(rec, restored)

\* a pair-shaped range has gone through model_dump and reconstruction
C2_Witness ==
    /\ pc = "restored"
    /\ form = "dict"
    /\ cls = "GetOptions"
    /\ rec.f.range.k = "tuple"
    /\ Len(rec.f.range.items) = 2

RECURSIVE JsonEq(_, _)

\* b is equal to a, but that bytes may have become their text and a tuple
\* the list of the same elements
JsonEq(a, b) ==
    CASE a.k = "bytes" ->
            (b.k = "bytes" /\ b = a) \/ (b.k = "str" /\ a.utf8 /\ b.s = a.text)
      [] a.k = "tuple" ->
            /\ b.k \in {"tuple", "list"}
            /\ Len(b.items) = Len(a.items)
            /\ \A i \in DOMAIN a.items : JsonEq(a.items[i], b.items[i])
      [] a.k = "list" ->
            /\ b.k = "list"
            /\ Len(b.items) = Len(a.items)
            /\ \A i \in DOMAIN a.items : JsonEq(a.items[i], b.items[i])
      [] a.k = "dict" ->
            /\ b.k = "dict"
            /\ DOMAIN b.m = DOMAIN a.m
            /\ \A key \in DOMAIN a.m : JsonEq(a.m[key], b.m[key])
      [] a.k = "model" ->
            /\ b.k = "model"
            /\ b.cls = a.cls
            /\ \A name \in DOMAIN a.f : JsonEq(a.f[name], b.f[name])
      [] OTHER -> PyEq(a, b)

\* C3: for every record type and every instance x, decoding the JSON text of
\* x gives a record equal to x in every field, but that a bytes header value
\* may come back as text and a pair-shaped range as a list of the same ints;
\* durations, string timeouts, timestamps and the backoff base come back equal.
C3_JsonRoundTrip ==
    (pc = "restored" /\ form = "json") =>
        /\ restored # ValidationError
        /\ JsonEq(rec, restored)

\* C4: constructing ObjectMeta from an input that lacks path, last_modified
\* or size raises a validation error; constructing it from exactly the three,
\* each of its declared type, succeeds with e_tag and version None.
C4_RequiredFields ==
    (Called /\ cls = "ObjectMeta") =>
        /\ (~({"path", "last_modified", "size"} \subseteq DOMAIN kwargs)
                => rec = ValidationError)
        /\ (/\ DOMAIN kwargs = {"path", "last_modified", "size"}
            /\ kwargs.path.k = "str"
            /\ kwargs.last_modified.k = "datetime"
            /\ kwargs.size.k = "int")
                => /\ rec # ValidationError
                   /\ rec.f.e_tag = PyNone
                   /\ rec.f.version = PyNone

\* ObjectMeta has been called without size and has raised
C4_Witness ==
    /\ pc = "raised"
    /\ cls = "ObjectMeta"
    /\ DOMAIN kwargs = {"path", "last_modified"}

\* C5 (as claimed): constructing ObjectMeta with any string for last_modified
\* or for size, or with any non-string for path, raises a validation error.
C5_MistypedRejected ==
    (/\ Called
     /\ cls = "ObjectMeta"
     /\ \/ ("last_modified" \in DOMAIN kwargs /\ kwargs.last_modified.k = "str")
        \/ ("size" \in DOMAIN kwargs /\ kwargs.size.k = "str")
        \/ ("path" \in DOMAIN kwargs /\ kwargs.path.k # "str"))
        => rec = ValidationError

\* C5 (amended): constructing ObjectMeta raises a validation error when
\* last_modified is a string that is not the text of a timestamp, when size
\* is a string that is not the text of an integer, and when path is a value
\* that is neither a string nor bytes, such as an int or a bool.
C5_UnparseableRejected ==
    (/\ Called
     /\ cls = "ObjectMeta"
     /\ \/ /\ "last_modified" \in DOMAIN kwargs
           /\ kwargs.last_modified.k = "str"
           /\ ~IsDatetimeText(kwargs.last_modified.s)
        \/ /\ "size" \in DOMAIN kwargs
           /\ kwargs.size.k = "str"
           /\ ~IsIntLiteral(kwargs.size.s)
        \/ /\ "path" \in DOMAIN kwargs
           /\ kwargs.path.k \notin {"str", "bytes"})
        => rec = ValidationError

\* ObjectMeta has been called with a size that is no number and has raised
C5_Witness ==
    /\ pc = "raised"
    /\ cls = "ObjectMeta"
    /\ "size" \in DOMAIN kwargs
    /\ kwargs.size = PyStr("not-an-int")

\* the value is a sequence of ints of the given Python type
IsIntSeq(v, kind) == v.k = kind /\ \A i \in DOMAIN v.items : v.items[i].k = "int"

\* the value is the map {key: n}, n an int
IsSingleKeyMap(v, key) == v.k = "dict" /\ DOMAIN v.m = {key} /\ v.m[key].k = "int"

\* C6: GetOptions constructs when range is a pair (tuple) of ints, a list of
\* ints, {"offset": n} or {"suffix": n}, and the stored range is the supplied
\* value, of the supplied shape; a plain string as range raises a validation
\* error.
C6_RangePolymorphism ==
    (Called /\ cls = "GetOptions" /\ "range" \in DOMAIN kwargs) =>
        LET r == kwargs.range
        IN  /\ (\/ (IsIntSeq(r, "tuple") /\ Len(r.items) = 2)
                \/ IsIntSeq(r, "list")
                \/ IsSingleKeyMap(r, "offset")
                \/ IsSingleKeyMap(r, "suffix"))
                    => /\ OthersValid("range") => rec # ValidationError
                       /\ rec # ValidationError => rec.f.range = r
            /\ r.k = "str" => rec = ValidationError

\* GetOptions has been constructed from a list of two ints, kept as a list
C6_Witness ==
    /\ pc = "constructed"
    /\ cls = "GetOptions"
    /\ "range" \in DOMAIN kwargs
    /\ IsIntSeq(kwargs.range, "list")
    /\ Len(kwargs.range.items) = 2
    /\ rec.f.range = kwargs.range

\* the value has one of the accepted shapes of a range: a pair, a sequence,
\* or a map of exactly one key, "offset" or "suffix"
AcceptedRangeShape(v) ==
    \/ v.k \in {"tuple", "list", "range"}
    \/ v.k = "dict" /\ (DOMAIN v.m = {"offset"} \/ DOMAIN v.m = {"suffix"})

\* C7: GetOptions raises a validation error whenever range is outside the
\* accepted shapes: a map is accepted only with exactly one key, "offset" or
\* "suffix".
C7_RangeShapeClosure ==
    (/\ Called
     /\ cls = "GetOptions"
     /\ "range" \in DOMAIN kwargs
     /\ kwargs.range # PyNone
     /\ ~AcceptedRangeShape(kwargs.range))
        => rec = ValidationError

\* C8: each of connect_timeout, http2_keep_alive_timeout, pool_idle_timeout
\* and timeout stores None, a timedelta or a string exactly as supplied, and
\* a value of any other type raises a validation error.
C8_DurationStringGate ==
    (Called /\ cls = "ClientConfig") =>
        \A name \in {"connect_timeout", "http2_keep_alive_timeout",
                     "pool_idle_timeout", "timeout"} \cap DOMAIN kwargs :
            IF kwargs[name].k \in {"none", "timedelta", "str"}
            THEN /\ OthersValid(name) => rec # ValidationError
                 /\ rec # ValidationError => rec.f[name] = kwargs[name]
            ELSE rec = ValidationError

\* ClientConfig has been called with an int for pool_idle_timeout and raised
C8_Witness ==
    /\ pc = "raised"
    /\ cls = "ClientConfig"
    /\ "pool_idle_timeout" \in DOMAIN kwargs
    /\ kwargs.pool_idle_timeout.k = "int"

RECURSIVE OmitsAbsent(_, _)

\* d is the map of exactly the fields of obj that are not None, a nested
\* record reduced the same way and any other value the record's own
OmitsAbsent(obj, d) ==
    /\ d.k = "dict"
    /\ DOMAIN d.m = {name \in DOMAIN obj.f : obj.f[name] # PyNone}
    /\ \A name \in DOMAIN d.m :
            IF obj.f[name].k = "model" THEN OmitsAbsent(obj.f[name], d.m[name])
            ELSE d.m[name] = obj.f[name]

\* C9: model_dump(exclude_none=True) yields the map whose keys are exactly
\* the fields that are not None, each with the record's value, nested records
\* reduced to maps by the same rule.
C9_OmitAbsent ==
    (pc = "dumped" /\ form = "exclude_none") => OmitsAbsent(rec, out)

\* GetOptions(head=True, if_match=...) has been dumped to exactly two keys
C9_Witness ==
    /\ pc = "dumped"
    /\ form = "exclude_none"
    /\ cls = "GetOptions"
    /\ DOMAIN out.m = {"head", "if_match"}
    /\ out.m.head = PyBool(TRUE)

RECURSIVE FullyValidated(_)

\* every field that holds a record holds an instance of the field's class,
\* with all of the class's fields, itself fully validated
FullyValidated(obj) ==
    /\ obj.k = "model"
    /\ DOMAIN obj.f = FieldNames(obj.cls)
    /\ \A name \in DOMAIN obj.f :
            (NestedClass(obj.cls, name) # "" /\ obj.f[name] # PyNone)
                => /\ obj.f[name].k = "model"
                   /\ obj.f[name].cls = NestedClass(obj.cls, name)
                   /\ FullyValidated(obj.f[name])

\* C10: a plain map supplied for RetryConfig.backoff, Config.client_options
\* or Config.retry_options yields an instance of the nested class, at every
\* depth, and the record is the one obtained by supplying the instance
\* constructed from that map.
C10_NestedFromMaps ==
    (Called /\ cls \in {"RetryConfig", "Config"}) =>
        /\ rec # ValidationError => FullyValidated(rec)
        /\ \A name \in DOMAIN kwargs \cap FieldNames(cls) :
                (NestedClass(cls, name) # "" /\ kwargs[name].k = "dict") =>
                    LET made == ValidateModel(NestedClass(cls, name), kwargs[name].m)
                    IN  IF made = ValidationError THEN rec = ValidationError
                        ELSE /\ rec = ValidateModel(cls, [kwargs EXCEPT ![name] = made])
                             /\ rec # ValidationError => rec.f[name] = made

\* Config has been constructed from a map for retry_options that holds a map
\* for backoff
C10_Witness ==
    /\ pc = "constructed"
    /\ cls = "Config"
    /\ "retry_options" \in DOMAIN kwargs
    /\ kwargs.retry_options.k = "dict"
    /\ "backoff" \in DOMAIN kwargs.retry_options.m
    /\ kwargs.retry_options.m.backoff.k = "dict"
    /\ rec.f.retry_options.f.backoff.k = "model"

RECURSIVE UnsuppliedAreNone(_, _)

\* every field of obj that kw does not supply is None, and so in every
\* nested record that kw supplies as a plain map
UnsuppliedAreNone(obj, kw) ==
    \A name \in DOMAIN obj.f :
        IF name \notin DOMAIN kw THEN obj.f[name] = PyNone
        ELSE (obj.f[name].k = "model" /\ kw[name].k = "dict")
                => UnsuppliedAreNone(obj.f[name], kw[name].m)

\* C11: for ClientConfig, BackoffConfig, RetryConfig, Config and GetOptions,
\* every field not supplied at construction is None in the record (no default
\* of the external library is put in), and a record constructed with no
\* arguments has all fields None.
C11_NoSynthesizedDefaults ==
    (pc = "constructed" /\ cls # "ObjectMeta") =>
        /\ UnsuppliedAreNone(rec, kwargs)
        /\ kwargs = EmptyMap => \A name \in FieldNames(cls) : rec.f[name] = PyNone

\* RetryConfig has been constructed with max_retries alone, and from nothing
C11_Witness ==
    /\ pc = "constructed"
    /\ cls = "RetryConfig"
    /\ DOMAIN kwargs = {"max_retries"}
    /\ rec.f.backoff = PyNone
    /\ rec.f.retry_timeout = PyNone

RECURSIVE UnknownKeyLocs(_, _)

\* the places of the keys of kw that name no field, in kw itself and in the
\* plain maps it gives for nested records
UnknownKeyLocs(c, kw) ==
    {<<key>> : key \in DOMAIN kw \ FieldNames(c)}
        \cup UNION {IF NestedClass(c, name) # "" /\ kw[name].k = "dict"
                    THEN {<<name>> \o loc :
                            loc \in UnknownKeyLocs(NestedClass(c, name), kw[name].m)}
                    ELSE {} :
                    name \in DOMAIN kw \cap FieldNames(c)}

\* C12: constructing Config or RetryConfig from plain maps raises a
\* validation error when an unknown key appears inside a nested map (inside
\* client_options, retry_options or retry_options.backoff, of Config; inside
\* backoff, of RetryConfig), and the error names the place of that key.
C12_NestedUnknownKeys ==
    (Called /\ cls \in {"Config", "RetryConfig"}) =>
        \A loc \in UnknownKeyLocs(cls, kwargs) :
            Len(loc) >= 2 => (rec = ValidationError /\ loc \in errors)

\* Config has raised for an unknown key inside retry_options.backoff
C12_Witness ==
    /\ pc = "raised"
    /\ cls = "Config"
    /\ <<"retry_options", "backoff", UnknownKey>> \in UnknownKeyLocs(cls, kwargs)
    /\ <<"retry_options", "backoff", UnknownKey>> \in errors

\* the ints of a native range, as a list
Expanded(v) == PyList(RangeItems(v.stop))

\* C13: when the range held by a GetOptions is a native range, model_dump and
\* model_dump_json yield the list of the progression's ints in order, and any
\* other range value is serialized unchanged (in JSON, a tuple as the array
\* of its elements); a native range supplied at construction is accepted and
\* is read back as the list of its elements.
C13_StepRangeExpansion ==
    /\ (/\ pc = "dumped"
        /\ cls = "GetOptions"
        /\ form \in {"dict", "exclude_none", "json"}
        /\ out # SerializationError
        /\ "range" \in DOMAIN out.m)
            => LET held == rec.f.range
               IN  CASE held.k = "range" -> out.m.range = Expanded(held)
                     [] held.k = "tuple" /\ form = "json" ->
                            out.m.range = PyList(held.items)
                     [] OTHER -> out.m.range = held
    /\ (/\ pc = "constructed"
        /\ cls = "GetOptions"
        /\ attr = NoAttr
        /\ "range" \in DOMAIN kwargs
        /\ kwargs.range.k = "range")
            => rec.f.range = Expanded(kwargs.range)
    /\ (/\ pc = "raised"
        /\ cls = "GetOptions"
        /\ "range" \in DOMAIN kwargs
        /\ OthersValid("range"))
            => kwargs.range.k # "range"

\* C14: a container constructed from an already constructed nested instance
\* owns a copy of it: no later step, an assignment through the caller's
\* reference to the nested instance among them, changes what any container
\* reads in its fields or what it serializes to, so that two containers of
\* one instance share no state.
C14_ValueCopyOwnership ==
    [][\A i \in DOMAIN holders :
            /\ Holder(holders[i])' = Holder(holders[i])
            /\ model_dump(Holder(holders[i]), FALSE)'
                    = model_dump(Holder(holders[i]), FALSE)]_vars

\* C15: once a record has been constructed, no operation on it (attribute
\* assignment, serialization, use as a nested value) changes the value of
\* any of its fields.
C15_Immutability ==
    [][(pc # "call" /\ rec # ValidationError) => rec' = rec]_vars

\* C16: assigning to connect_timeout, http2_keep_alive_timeout,
\* pool_idle_timeout or timeout of an existing ClientConfig a value that is
\* not None, a timedelta or a string raises at assignment time and leaves the
\* record unchanged.
C16_AssignmentValidation ==
    [][(/\ assigns' # assigns
        /\ cls = "ClientConfig"
        /\ attr'.name \in TimeoutFields
        /\ attr'.value.k \notin {"none", "timedelta", "str"})
            => (attr'.raised /\ rec' = rec)]_vars

\* C17: for every record that construction accepted, model_dump (with or
\* without the fields that are None) and model_dump_json complete without
\* raising, whatever the accepted values are, header bytes that are no valid
\* text among them.
C17_SerializationNeverFails ==
    /\ pc # "dump_raised"
    /\ pc = "dumped" => out # SerializationError

\* the call is one that construction rejects: a required field is left out,
\* a key names no field of a class that forbids extra keys, or a value is
\* not accepted by its field (a timeout of a wrong type, a range of a wrong
\* shape, a value matching none of the accepted types)
Rejected ==
    \/ RequiredFields(cls) \ DOMAIN kwargs # {}
    \/ ExtraForbidden(cls) /\ DOMAIN kwargs \ FieldNames(cls) # {}
    \/ \E name \in DOMAIN kwargs \cap FieldNames(cls) :
            ValidateField(cls, name, kwargs[name]) = ValidationError

\* C18: every rejected construction raises the one kind of error,
\* ValidationError, at the call, with its errors located, and then no record
\* exists, not a partly populated one either; a record that exists has every
\* field of its class.
C18_AllOrNothing ==
    Called =>
        /\ Rejected => (pc = "raised" /\ rec = ValidationError /\ errors # {})
        /\ ~Rejected => (/\ pc # "raised"
                         /\ errors = {}
                         /\ rec.k = "model"
                         /\ DOMAIN rec.f = FieldNames(cls))

\* ClientConfig has raised for a valid allow_http given with a timeout of a
\* wrong type
C18_Witness ==
    /\ pc = "raised"
    /\ cls = "ClientConfig"
    /\ DOMAIN kwargs = {"allow_http", "timeout"}
    /\ kwargs.timeout.k = "int"
    /\ rec = ValidationError
    /\ errors = {<<"timeout">>}

\* the text is that of a timestamp with its zone designator
IsZonedText(v) ==
    /\ v.k = "str"
    /\ \E d \in KnownDatetimes : d.tz # "naive" /\ v.s = FormatDatetime(d)

\* C19: in the JSON text of ObjectMeta and GetOptions every timestamp field
\* that is set (last_modified, if_modified_since, if_unmodified_since) is
\* written in a zoned format, with its zone designator, for every timestamp
\* that construction accepts.
C19_ZonedJsonTimestamps ==
    (pc = "dumped" /\ form = "json" /\ cls \in {"ObjectMeta", "GetOptions"}) =>
        \A name \in {"last_modified", "if_modified_since", "if_unmodified_since"}
                        \cap DOMAIN rec.f :
            rec.f[name] # PyNone => IsZonedText(out.m[name])

\* the ints held in a range value
RangeInts(v) ==
    CASE v.k \in {"tuple", "list"} -> {v.items[i].i : i \in DOMAIN v.items}
      [] v.k = "dict" -> {v.m[key].i : key \in DOMAIN v.m}
      [] OTHER -> {}

\* C20: every int held in the range of a constructed GetOptions (of a pair,
\* of a sequence, of an offset or suffix map) is non-negative: input with a
\* negative int in range is rejected with a validation error.
C20_NonNegativeRange ==
    (pc = "constructed" /\ cls = "GetOptions") =>
        \A i \in RangeInts(rec.f.range) : i >= 0

\* the fields declared bool, int, number, timedelta or datetime, of the
\* classes but ObjectMeta
StructuralFields(c) ==
    CASE c = "ClientConfig" ->
            {"allow_http", "allow_invalid_certificates", "http1_only", "http2_only"}
      [] c = "GetOptions" -> {"head", "if_modified_since", "if_unmodified_since"}
      [] c = "RetryConfig" -> {"max_retries", "retry_timeout"}
      [] c = "BackoffConfig" -> {"base", "init_backoff", "max_backoff"}
      [] OTHER -> {}

\* the string is the text of a value of the type the field declares
IsTextOfDeclared(c, name, s) ==
    CASE name = "max_retries" -> IsIntLiteral(s)
      [] name = "base" -> IsIntLiteral(s) \/ IsFloatLiteral(s)
      [] name \in {"init_backoff", "max_backoff", "retry_timeout"} -> IsDurationText(s)
      [] name \in {"if_modified_since", "if_unmodified_since"} -> IsDatetimeText(s)
      [] OTHER -> s \in TrueStrings \cup FalseStrings

\* C22 (as claimed): a string is rejected with a validation error for every
\* field declared bool, int, number, timedelta or datetime; no string is
\* coerced into such a field.
C22_StringsRejected ==
    Called =>
        \A name \in StructuralFields(cls) \cap DOMAIN kwargs :
            kwargs[name].k = "str" => rec = ValidationError

\* C22 (amended): for every field declared bool, int, number, timedelta or
\* datetime, a string that is not the text of a value of the declared type
\* is rejected with a validation error; a string that is such a text is
\* accepted and stored as the value of the declared type it stands for.
C22_UnparseableStringsRejected ==
    Called =>
        \A name \in StructuralFields(cls) \cap DOMAIN kwargs :
            kwargs[name].k = "str" =>
                IF IsTextOfDeclared(cls, name, kwargs[name].s)
                THEN /\ OthersValid(name) => rec # ValidationError
                     /\ rec # ValidationError => rec.f[name].k \notin {"str", "none"}
                ELSE rec = ValidationError

\* RetryConfig has raised for a max_retries that is no number
C22_Witness ==
    /\ pc = "raised"
    /\ cls = "RetryConfig"
    /\ "max_retries" \in DOMAIN kwargs
    /\ kwargs.max_retries = PyStr("not-an-int")

\* the fields of ClientConfig declared str | None that hold durations and
\* counts as text
StringOnlyFields ==
    {"http2_keep_alive_interval", "http2_keep_alive_while_idle", "pool_max_idle_per_host"}

\* C23 (as claimed): http2_keep_alive_interval, http2_keep_alive_while_idle
\* and pool_max_idle_per_host accept only None or a string, stored unchanged;
\* any other value, a timedelta, an int or a bool among them, raises a
\* validation error.
C23_StringOnly ==
    (Called /\ cls = "ClientConfig") =>
        \A name \in StringOnlyFields \cap DOMAIN kwargs :
            IF kwargs[name].k \in {"none", "str"}
            THEN /\ OthersValid(name) => rec # ValidationError
                 /\ rec # ValidationError => rec.f[name] = kwargs[name]
            ELSE rec = ValidationError

\* C23 (amended): the three fields accept None and a string, stored
\* unchanged, and bytes that are UTF-8 text, stored as that text; a
\* timedelta, an int or a bool raises a validation error, unlike for the four
\* timeout fields, which accept a timedelta.
C23_StringOrText ==
    (Called /\ cls = "ClientConfig") =>
        \A name \in StringOnlyFields \cap DOMAIN kwargs :
            LET v == kwargs[name]
            IN  CASE v.k \in {"none", "str"} ->
                        /\ OthersValid(name) => rec # ValidationError
                        /\ rec # ValidationError => rec.f[name] = v
                  [] v.k = "bytes" /\ v.utf8 ->
                        /\ OthersValid(name) => rec # ValidationError
                        /\ rec # ValidationError => rec.f[name] = PyStr(v.text)
                  [] v.k \in {"timedelta", "int", "bool"} -> rec = ValidationError
                  [] OTHER -> TRUE

\* ClientConfig has raised for a timedelta given as http2_keep_alive_interval
C23_Witness ==
    /\ pc = "raised"
    /\ cls = "ClientConfig"
    /\ "http2_keep_alive_interval" \in DOMAIN kwargs
    /\ kwargs.http2_keep_alive_interval.k = "timedelta"

\* every value of the map is a str or a bytes
IsHeaderMap(v) ==
    v.k = "dict" /\ \A key \in DOMAIN v.m : v.m[key].k \in {"str", "bytes"}

\* C24: default_headers accepts a map from strings to values that are each a
\* str or a bytes, in any mix; every stored value keeps its kind and content,
\* also in the map that model_dump returns; a value that is not a map raises
\* a validation error.
C24_HeaderMap ==
    (Called /\ cls = "ClientConfig" /\ "default_headers" \in DOMAIN kwargs) =>
        LET v == kwargs.default_headers
        IN  /\ IsHeaderMap(v) =>
                /\ OthersValid("default_headers") => rec # ValidationError
                /\ rec # ValidationError => rec.f.default_headers = v
                /\ (pc = "dumped" /\ form \in {"dict", "exclude_none"})
                        => out.m.default_headers = v
            /\ v.k \notin {"dict", "none"} => rec = ValidationError

\* a map of one text and one binary header has been constructed and dumped
C24_Witness ==
    /\ pc = "dumped"
    /\ form = "dict"
    /\ cls = "ClientConfig"
    /\ "default_headers" \in DOMAIN kwargs
    /\ IsHeaderMap(kwargs.default_headers)
    /\ {kwargs.default_headers.m[key].k : key \in DOMAIN kwargs.default_headers.m}
            = {"str", "bytes"}
    /\ out.m.default_headers = kwargs.default_headers

\* the base given to the BackoffConfig of the call, None when there is none:
\* to BackoffConfig itself, or in the backoff map or instance of RetryConfig
GivenBase ==
    CASE cls = "BackoffConfig" /\ "base" \in DOMAIN kwargs -> kwargs.base
      [] cls = "RetryConfig" /\ "backoff" \in DOMAIN kwargs ->
            LET b == kwargs.backoff
            IN  CASE b.k = "dict" /\ "base" \in DOMAIN b.m -> b.m.base
                  [] b.k = "model" -> b.f.base
                  [] OTHER -> PyNone
      [] OTHER -> PyNone

\* C25: a base supplied as an int is stored and serialized to the map as
\* that int, and one supplied as a float as that float, in BackoffConfig and
\* through the enclosing RetryConfig; neither is converted to the other.
C25_BaseKindPreserved ==
    (Called /\ GivenBase.k \in {"int", "float"}) =>
        /\ (cls = "BackoffConfig" /\ OthersValid("base")) => rec # ValidationError
        /\ rec # ValidationError =>
            /\ (IF cls = "BackoffConfig" THEN rec.f.base ELSE rec.f.backoff.f.base)
                    = GivenBase
            /\ (pc = "dumped" /\ form \in {"dict", "exclude_none"}) =>
                (IF cls = "BackoffConfig" THEN out.m.base ELSE out.m.backoff.m.base)
                    = GivenBase

\* a RetryConfig whose backoff map gives an int base has been dumped
C25_Witness ==
    /\ pc = "dumped"
    /\ form = "dict"
    /\ cls = "RetryConfig"
    /\ "backoff" \in DOMAIN kwargs
    /\ kwargs.backoff.k = "dict"
    /\ GivenBase.k = "int"
    /\ out.m.backoff.m.base = GivenBase

\* the record made of one key of the call alone
Alone(name) == ValidateModel(cls, [x \in {name} |-> kwargs[name]])

\* C26: for ClientConfig, BackoffConfig, RetryConfig, Config and GetOptions
\* a value is accepted for a field, and stored as the same value, whatever
\* other fields are given: a call is accepted exactly when each of its keys
\* is accepted alone.  So BackoffConfig accepts init_backoff greater than
\* max_backoff, and Config accepts client_options alone, retry_options alone,
\* both or neither.
C26_IndependentFields ==
    (Called /\ cls # "ObjectMeta") =>
        /\ rec # ValidationError
                <=> \A name \in DOMAIN kwargs : Alone(name) # ValidationError
        /\ rec # ValidationError =>
                \A name \in DOMAIN kwargs \cap FieldNames(cls) :
                    rec.f[name] = Alone(name).f[name]

\* BackoffConfig has been constructed with init_backoff above max_backoff
C26_Witness ==
    /\ pc = "constructed"
    /\ cls = "BackoffConfig"
    /\ DOMAIN kwargs = {"init_backoff", "max_backoff"}
    /\ rec.f.init_backoff.k = "timedelta"
    /\ rec.f.max_backoff.k = "timedelta"
    /\ rec.f.init_backoff.ms > rec.f.max_backoff.ms

\* C28: constructing a record, whether it succeeds or raises, leaves the
\* caller's input map unchanged, its nested maps, header map and range
\* sequence with it, so that constructing again from the same input yields
\* an equal record (or raises again).
C28_InputUntouched ==
    [][(pc = "call" /\ pc' # "call") =>
            /\ kwargs' = kwargs
            /\ ValidateModel(cls', kwargs') = rec']_vars

\* Config has been constructed from a map that holds a nested map
C28_Witness ==
    /\ pc = "constructed"
    /\ cls = "Config"
    /\ "retry_options" \in DOMAIN kwargs
    /\ kwargs.retry_options.k = "dict"
    /\ "backoff" \in DOMAIN kwargs.retry_options.m
    /\ rec = ValidateModel(cls, kwargs)

\* C29: for every valid record x, with y the record decoded from the JSON
\* text of x: y exists, the JSON text of y is the JSON text of x, and
\* decoding it yields a record equal to y, also where the first pass was
\* lossy (a binary header became text, a pair range became a list).
C29_JsonFixedPoint ==
    (pc = "restored" /\ form = "json") =>
        /\ restored # ValidationError
        /\ model_dump_json(restored) = out
        /\ model_validate_json(cls, model_dump_json(restored)) = restored

\* a pair range has come back from JSON as a list
C29_Witness ==
    /\ pc = "restored"
    /\ form = "json"
    /\ cls = "GetOptions"
    /\ rec.f.range.k = "tuple"
    /\ restored.f.range.k = "list"

\* kw without the key name
Without(kw, name) == [x \in DOMAIN kw \ {name} |-> kw[x]]

\* C30: for every optional field, the record constructed with the field
\* explicitly None is equal to the record constructed with the field
\* omitted, and both serialize to the same map: the key present with None in
\* full mode, missing in omit-absent mode.
C30_ExplicitNoneIsOmission ==
    Called =>
        \A name \in DOMAIN kwargs \cap (FieldNames(cls) \ RequiredFields(cls)) :
            kwargs[name] = PyNone =>
                LET omitted == ValidateModel(cls, Without(kwargs, name))
                IN  /\ rec = omitted
                    /\ (pc = "dumped" /\ form = "dict") =>
                            /\ out = model_dump(omitted, FALSE)
                            /\ name \in DOMAIN out.m
                            /\ out.m[name] = PyNone
                    /\ (pc = "dumped" /\ form = "exclude_none") =>
                            /\ out = model_dump(omitted, TRUE)
                            /\ name \notin DOMAIN out.m

\* ObjectMeta given e_tag=None has been dumped without the fields that are
\* None
C30_Witness ==
    /\ pc = "dumped"
    /\ form = "exclude_none"
    /\ cls = "ObjectMeta"
    /\ "e_tag" \in DOMAIN kwargs
    /\ kwargs.e_tag = PyNone
    /\ "e_tag" \notin DOMAIN out.m

C27_SharedRange ==
    /\ pc = "mutated"
    /\ cls = "GetOptions"
    /\ rec.f.range.k = "list"
    /\ out.m.range = rec.f.range
    /\ rec # ValidateModel(cls, kwargs)

\* the caller has changed the header map of a dumped ClientConfig and the
\* record still reads as constructed
C27_DetachedHeaders ==
    /\ pc = "mutated"
    /\ cls = "ClientConfig"
    /\ assigns = 0
    /\ "default_headers" \in DOMAIN out.m
    /\ out.m.default_headers.k = "dict"
    /\ "mutated" \in DOMAIN out.m.default_headers.m
    /\ rec = ValidateModel(cls, kwargs)

\* what a thread has got is what its operations give when run alone
AsAlone(th) ==
    LET alone == ValidateModel(th.cls, th.kwargs)
    IN  /\ th.pc \in {"constructed", "raised", "dumped", "dump_raised"} =>
            th.rec = alone
        /\ th.pc \in {"dumped", "dump_raised"} =>
            th.out = IF th.form = "dict" THEN model_dump(alone, FALSE)
                     ELSE model_dump_json(alone)

\* C21: when several threads construct and serialize records of their own
\* concurrently, in every interleaving a step of one thread leaves what the
\* other threads hold unchanged, and each thread gets the record and the
\* serialized output it gets when it runs alone.
C21_CoordinationFree ==
    [][\A t \in Threads :
            /\ AsAlone(threads'[t])
            /\ threads'[t] # threads[t] =>
                    \A u \in Threads \ {t} : threads'[u] = threads[u]]_vars

\* one thread is in the middle of a constructor call while another, which
\* constructs a record of the same class from other values, has serialized
\* its record
C21_Witness ==
    \E t, u \in Threads :
        /\ threads[t].pc = "call"
        /\ threads[t].partial # EmptyMap
        /\ threads[t].todo # {}
        /\ threads[u].pc = "dumped"
        /\ threads[u].cls = threads[t].cls
        /\ threads[u].kwargs # threads[t].kwargs
        /\ AsAlone(threads[u])

====
